---- MODULE Spec2Model ----
(***************************************************************************)
(* The authenticated-request execution engine of qpay_client.v2:           *)
(* QPayClient (v2/client.py), its credential state (v2/auth.py) and the    *)
(* error classifier (v2/utils.py, v2/error.py).                            *)
(*                                                                         *)
(* Several coroutines ("callers") share one QPayClient.  A coroutine runs  *)
(* without interruption from one suspension to the next, so every action   *)
(* below is the code between two suspensions of one caller: the arrival of *)
(* an HTTP response, the end of a backoff sleep, or the hand-over of the   *)
(* asyncio.Lock to a waiting caller.                                       *)
(*                                                                         *)
(* The legacy client (qpay_client/qpay_client.py) is synchronous and keeps *)
(* its own token fields; its get_token() is modelled as one action.        *)
(***************************************************************************)
EXTENDS Integers, Sequences, FiniteSets, TLC

\* ------------------------------------------------------------------ bounds
NumCallers == 2
MaxRetries == 2
MaxTime == 1
MaxFaults == 1
Leeway == 1
MaxAttempts == 2
MaxCount == 2
MaxLegacyCalls == 3
MaxProbe == 3
MaxUpdates == 2
MaxAnswers == 3

\* ------------------------------------------------------- program constants
DefaultRetries == 5
\* _request(retries=0) of the synchronous client
SyncDefaultRetries == 0
NoToken == 0

\* delay: float = 0.5 and jitter: float = 0.5, as fractions
DefaultDelay == [num |-> 1, den |-> 2]
DefaultJitter == [num |-> 1, den |-> 2]

Callers == 1..NumCallers

\* ---------------------------------------------------------------- transport
\* The statuses the gateway answers with: success, the client errors the
\* executor tells apart (401 and the others) and two server errors.
Statuses == {200, 400, 401, 404, 500, 503}

is_success(status) == status >= 200 /\ status <= 299
is_client_error(status) == status >= 400 /\ status <= 499
is_server_error(status) == status >= 500 /\ status <= 599
is_error(status) == status >= 400 /\ status <= 599

\* A token payload: the lifetimes are relative to the leeway, one that is
\* already within the leeway when issued and one that outlives it.
ShortLife == Leeway
LongLife == Leeway + 1
NoPayload == [valid |-> FALSE, expires_in |-> 0, refresh_expires_in |-> 0]
TokenPayloads ==
    {[valid |-> TRUE, expires_in |-> a, refresh_expires_in |-> r] :
        a \in {ShortLife, LongLife}, r \in {ShortLife, LongLife}}
    \cup {NoPayload}

\* Bodies of failed responses: JSON with a known machine key, JSON with a
\* message that is no known key, JSON without `message`, and two non-JSON
\* bodies (some text, nothing at all).
ErrorBodies ==
    { [is_json |-> TRUE,  has_message |-> TRUE,  message |-> "INVOICE_PAID",   text |-> "", token |-> NoPayload, count |-> 0],
      [is_json |-> TRUE,  has_message |-> TRUE,  message |-> "error occurred", text |-> "", token |-> NoPayload, count |-> 0],
      [is_json |-> TRUE,  has_message |-> FALSE, message |-> "",               text |-> "", token |-> NoPayload, count |-> 0],
      [is_json |-> FALSE, has_message |-> FALSE, message |-> "",               text |-> "not json", token |-> NoPayload, count |-> 0],
      [is_json |-> FALSE, has_message |-> FALSE, message |-> "",               text |-> "", token |-> NoPayload, count |-> 0] }

\* The body of a data-plane success; `count` is the settlement count a
\* /payment/check answer reports.
DataBody == [is_json |-> TRUE, has_message |-> FALSE, message |-> "", text |-> "", token |-> NoPayload,
             count |-> 0]
CheckBody(n) == [DataBody EXCEPT !.count = n]
TokenBody(p) == [DataBody EXCEPT !.token = p]

\* What the server may answer to a request of the given kind, the failures
\* drawn from the given statuses and bodies.
ResponsesOf(kind, statuses, bodies) ==
    {[status |-> s, body |-> b] : s \in statuses \ {200}, b \in bodies}
    \cup (IF kind = "data"
          THEN {[status |-> 200, body |-> DataBody]}
          ELSE {[status |-> 200, body |-> TokenBody(p)] : p \in TokenPayloads})

Responses(kind) == ResponsesOf(kind, Statuses, ErrorBodies)

\* The same with one status of each class the executor tells apart and one
\* body: what the callers' control flow depends on.
CoarseResponses(kind) ==
    ResponsesOf(kind, {200, 401, 500},
                {b \in ErrorBodies : b.is_json /\ b.message = "INVOICE_PAID"})

\* The same, with the answers of /payment/check that report a settlement and
\* a client error, which ends a request at once.
PollResponses(kind) ==
    CoarseResponses(kind)
    \cup (IF kind = "data"
          THEN {[status |-> 200, body |-> CheckBody(n)] : n \in 1..MaxCount}
               \cup ResponsesOf(kind, {400},
                                {b \in ErrorBodies : b.is_json /\ b.message = "INVOICE_PAID"})
          ELSE {})

\* ------------------------------------------------------------------ backoff
RECURSIVE Pow(_, _)
Pow(b, e) == IF e = 0 THEN 1 ELSE b * Pow(b, e - 1)

\* The base delays a caller passes: the default and one above a second.
Delays == {DefaultDelay, [num |-> 2, den |-> 1]}

\* The deterministic part of the sleep before retry `attempt`:
\*   delay ** (attempt - 1)
backoff(delay, attempt) ==
    [num |-> Pow(delay.num, attempt - 1), den |-> Pow(delay.den, attempt - 1)]

\* random(): a value in [0, 1), in quarters
RandomValues == {[num |-> r, den |-> 4] : r \in 0..3}

\* The jitter added to a sleep: random() * jitter
jitter_term(r, jitter) == [num |-> r.num * jitter.num, den |-> r.den * jitter.den]

\* ------------------------------------------------------------------- errors
QPayErrorCode == {200, 400, 401, 403, 409, 422, 500}

QPayErrorKey ==
    { "ACCOUNT_BANK_DUPLICATED", "ACCOUNT_SELECTION_INVALID", "AUTHENTICATION_FAILED",
      "BANK_ACCOUNT_NOTFOUND", "BANK_MCC_ALREADY_ADDED", "BANK_MCC_NOT_FOUND",
      "CARD_TERMINAL_NOTFOUND", "CLIENT_NOTFOUND", "CLIENT_USERNAME_DUPLICATED",
      "CUSTOMER_DUPLICATE", "CUSTOMER_NOTFOUND", "CUSTOMER_REGISTER_INVALID",
      "EBARIMT_CANCEL_NOTSUPPERDED", "EBARIMT_NOT_REGISTERED", "EBARIMT_QR_CODE_INVALID",
      "INFORM_NOTFOUND", "INPUT_CODE_REGISTERED", "INPUT_NOTFOUND", "INVALID_AMOUNT",
      "INVALID_OBJECT_TYPE", "INVOICE_ALREADY_CANCELED", "INVOICE_CODE_INVALID",
      "INVOICE_CODE_REGISTERED", "INVOICE_LINE_REQUIRED", "INVOICE_NOTFOUND", "INVOICE_PAID",
      "INVOICE_RECEIVER_DATA_ADDRESS_REQUIRED", "INVOICE_RECEIVER_DATA_EMAIL_REQUIRED",
      "INVOICE_RECEIVER_DATA_PHONE_REQUIRED", "INVOICE_RECEIVER_DATA_REQUIRED",
      "MAX_AMOUNT_ERR", "MCC_NOTFOUND", "MERCHANT_ALREADY_REGISTERED", "MERCHANT_INACTIVE",
      "MERCHANT_NOTFOUND", "MIN_AMOUNT_ERR", "NO_CREDENDIALS", "OBJECT_DATA_ERROR",
      "P2P_TERMINAL_NOTFOUND", "PAYMENT_ALREADY_CANCELED", "PAYMENT_NOT_PAID",
      "PAYMENT_NOTFOUND", "PERMISSION_DENIED", "QRACCOUNT_INACTIVE", "QRACCOUNT_NOTFOUND",
      "QRCODE_NOTFOUND", "QRCODE_USED", "SENDER_BRANCH_DATA_REQUIRED", "TAX_LINE_REQUIRED",
      "TAX_PRODUCT_CODE_REQUIRED", "TRANSACTION_NOT_APPROVED", "TRANSACTION_REQUIRED" }

NoExc == [type |-> "none", status_code |-> 0, error_key |-> ""]
QPayError(status_code, error_key) ==
    [type |-> "QPayError", status_code |-> status_code, error_key |-> error_key]
ValueError == [type |-> "ValueError", status_code |-> 0, error_key |-> ""]
AuthError == [type |-> "AuthError", status_code |-> 0, error_key |-> ""]
ValidationError == [type |-> "ValidationError", status_code |-> 0, error_key |-> ""]

\* safe_json: the decoded body, or {"message": response.text} when the body
\* is not JSON.  Only the `message` entry is read afterwards.
safe_json(response) ==
    IF response.body.is_json
    THEN [has_message |-> response.body.has_message, message |-> response.body.message]
    ELSE [has_message |-> TRUE, message |-> response.body.text]

\* error_data.get("message", "")
ErrorMessage(error_data) == IF error_data.has_message THEN error_data.message ELSE ""

\* handle_error: the exception that leaves the function.  Both enum
\* constructors reject a value that is no member (ValueError), the status
\* first.
handle_error(response) ==
    LET error_data == safe_json(response)
        msg == ErrorMessage(error_data)
    IN  IF response.status \notin QPayErrorCode THEN ValueError
        ELSE IF msg \notin QPayErrorKey THEN ValueError
        ELSE QPayError(response.status, msg)

\* --------------------------------------------------------- credential state
InitAuth ==
    [access_token |-> NoToken, access_token_expiry |-> 0,
     refresh_token |-> NoToken, refresh_token_expiry |-> 0]

has_access_token(a) == a.access_token # NoToken

\* (mutant) the boundary counts as not expired
is_access_expired_Strict(a, t, leeway) == t + leeway > a.access_token_expiry

is_access_expired(a, t, leeway) == t + leeway >= a.access_token_expiry

\* (mutant) the leeway taken off the clock instead of added
is_refresh_expired_Late(a, t, leeway) == t - leeway >= a.refresh_token_expiry

is_refresh_expired(a, t, leeway) == t + leeway >= a.refresh_token_expiry

\* update: all four fields are replaced by those of one token response.
update(a, id, payload, t) ==
    [access_token |-> id, access_token_expiry |-> t + payload.expires_in,
     refresh_token |-> id, refresh_token_expiry |-> t + payload.refresh_expires_in]


\* States a client can be in when the callers arrive: freshly constructed, or
\* holding the token of an earlier exchange (made at time 0) whose lifetimes
\* were any of those the server issues.
\* Strings whose letters matter are sequences of one-letter strings.
LowerOf(ch) ==
    CASE ch = "B" -> "b" [] ch = "E" -> "e" [] ch = "A" -> "a" [] ch = "R" -> "r"
      [] OTHER -> ch
UpperOf(ch) ==
    CASE ch = "b" -> "B" [] ch = "e" -> "E" [] ch = "a" -> "A" [] ch = "r" -> "R"
      [] OTHER -> ch

\* (mutant) only the first letter is touched
normalize_to_capital_FirstOnly(s) ==
    IF s = <<>> THEN <<>>
    ELSE [i \in 1..Len(s) |-> IF i = 1 THEN UpperOf(s[i]) ELSE s[i]]

\* _normalize_to_capital: first letter capitalized, the rest lowercase
normalize_to_capital(s) ==
    IF s = <<>> THEN <<>>
    ELSE [i \in 1..Len(s) |-> IF i = 1 THEN UpperOf(s[i]) ELSE LowerOf(s[i])]

\* a token as the text that goes into a header
TokenText(id) == <<"t", ToString(id)>>

\* access_as_header / refresh_as_header: "<normalized type> <token>"
access_as_header(a, token_type) ==
    normalize_to_capital(token_type) \o <<" ">> \o TokenText(a.access_token)
refresh_as_header(a, token_type) ==
    normalize_to_capital(token_type) \o <<" ">> \o TokenText(a.refresh_token)

\* The token types a server may send: "bearer" in every mix of cases, a
\* one-letter type and the empty string.
Bearer == <<"b", "e", "a", "r", "e", "r">>
TokenTypes ==
    {[i \in 1..Len(Bearer) |-> IF i \in U THEN UpperOf(Bearer[i]) ELSE Bearer[i]] :
        U \in SUBSET (1..Len(Bearer))}
    \cup {<<"a">>, <<>>}

PriorToken == NoToken + 1
InitAuths ==
    {InitAuth} \cup
    {update(InitAuth, PriorToken, p, 0) : p \in {q \in TokenPayloads : q.valid}}

\* -------------------------------------------------------- the legacy client
\* qpay_client/qpay_client.py: a synchronous client that keeps its own token
\* fields.  The expiries it stores are the official ones less a margin.
LegacyMargin == 60

\* __access_token, __refresh_token, __token_expiry, __refresh_token_expiry
LegacyInit ==
    [access_token |-> NoToken, refresh_token |-> NoToken,
     token_expiry |-> 0, refresh_token_expiry |-> 0]

\* Answers to the legacy client's exchanges: a failure, or a token response
\* with lifetimes at the margin and just above it.
LegacyLifetimes == {LegacyMargin, LegacyMargin + 1}
LegacyResponses ==
    {[ok |-> TRUE, expires_in |-> e, refresh_expires_in |-> r] :
        e \in LegacyLifetimes, r \in LegacyLifetimes}
    \cup {[ok |-> FALSE, expires_in |-> 0, refresh_expires_in |-> 0]}

\* The outcome of a legacy call: the fields afterwards, whether it raised,
\* and the number of exchanges it made.
LegacyOut(L, raised, n) == [L |-> L, raised |-> raised, n |-> n]

\* authenticate: raise_for_status(), then all four fields are set
legacy_authenticate(L, t, resp, id) ==
    IF ~resp.ok THEN LegacyOut(L, TRUE, 1)
    ELSE LegacyOut([access_token |-> id, refresh_token |-> id,
                    token_expiry |-> t + resp.expires_in - LegacyMargin,
                    refresh_token_expiry |-> t + resp.refresh_expires_in - LegacyMargin],
                   FALSE, 1)

\* refresh_access_token: authenticate when there is no usable refresh token;
\* otherwise POST the refresh, and on a failure authenticate
legacy_refresh_access_token(L, t, r1, r2, id) ==
    IF L.refresh_token = NoToken \/ L.refresh_token_expiry <= t
    THEN legacy_authenticate(L, t, r1, id)
    ELSE IF r1.ok
    THEN LegacyOut([L EXCEPT !.access_token = id,
                             !.token_expiry = t + r1.expires_in - LegacyMargin],
                   FALSE, 1)
    ELSE LET a == legacy_authenticate(L, t, r2, id) IN LegacyOut(a.L, a.raised, 2)

\* get_token, line 94: self.__access_token and self.__token_expiry > time.time()
LegacyTokenCheck(L, t) == L.access_token # NoToken /\ L.token_expiry > t

\* get_token
legacy_get_token(L, t, r1, r2, id) ==
    IF LegacyTokenCheck(L, t) THEN legacy_refresh_access_token(L, t, r1, r2, id)
    ELSE IF L.access_token = NoToken THEN legacy_authenticate(L, t, r1, id)
    ELSE LegacyOut(L, FALSE, 0)

NoLegacyCall == [returned |-> FALSE, value |-> NoToken, stale |-> FALSE, exchanges |-> 0]

\* -------------------------------------------------------------------- state
VARIABLES
    auth,       \* QPayClient._auth_state
    lockOwner,  \* holder of QPayClient._async_lock, 0 when free
    waiters,    \* callers queued on the lock, in arrival order
    stack,      \* per caller: the frames of its pending calls, innermost last
    result,     \* per caller: how its operation ended
    hist,       \* per caller: what it has sent and received so far
    issued,     \* number of tokens the server has issued
    faults,     \* number of answers so far that were not a plain success
    now,        \* the clock, time.time()
    legacy,     \* the legacy client: its token fields and its last get_token()
    probe,      \* the last direct call on the credential state and what it gave
    pair        \* one call made on both clients against the same answers

vars == <<auth, lockOwner, waiters, stack, result, hist, issued, faults, now, legacy,
          probe, pair>>

NoResponse == [status |-> 0, body |-> DataBody]
NoResult == [kind |-> "none", value |-> 0, exc |-> NoExc]

\* nothing noted yet about an entry into the refresh
NoEntry ==
    [seen |-> FALSE, access_expired |-> FALSE, refresh_expired |-> FALSE,
     nTok |-> 0, nRef |-> 0, nLock |-> 0]

NoHist ==
    [op |-> "none", retries |-> 0, startNow |-> 0,
     startIssued |-> 0,
     nTok |-> 0, nRef |-> 0, nData |-> 0, nSleep |-> 0, nRecover |-> 0,
     dp |-> <<>>, recoverFresh |-> FALSE,
     gtBranch |-> "none", gtAuth |-> InitAuth, gtNow |-> 0,
     hdrTok |-> NoToken, tok0 |-> 0, ref0 |-> 0, last |-> NoResponse, waited |-> FALSE,
     nLock |-> 0, tokFirst |-> 0, refFirst |-> 0,
     attempts |-> 0, delay |-> DefaultDelay, nCheck |-> 0, checks |-> <<>>,
     nPollSleep |-> 0, delays |-> <<>>,
     recAuth |-> InitAuth, sent |-> <<>>, cached |-> <<>>,
     refEntry |-> NoEntry, exAuth |-> InitAuth, reqs |-> <<>>]

Frame(fn, pc) == [fn |-> fn, pc |-> pc, kind |-> "", retries |-> 0, attempt |-> 0]
RequestFrame(kind, retries, pc) ==
    [fn |-> "_request", pc |-> pc, kind |-> kind, retries |-> retries, attempt |-> 0]

\* Signals that drive a caller: a call, a return or a raise between frames,
\* and "suspend" when the caller has reached a suspension point or its end.
Sig(t) == [t |-> t, fn |-> "", kind |-> "", retries |-> 0, val |-> 0,
           resp |-> NoResponse, exc |-> NoExc]
CallSig(fn) == [Sig("call") EXCEPT !.fn = fn]
CallRequest(kind, retries) ==
    [Sig("call") EXCEPT !.fn = "_request", !.kind = kind, !.retries = retries]
SyncCallRequest(kind, retries) == [CallRequest(kind, retries) EXCEPT !.fn = "sync_request"]
Ret == Sig("ret")
RetVal(v) == [Sig("ret") EXCEPT !.val = v]
RetResp(r) == [Sig("ret") EXCEPT !.resp = r, !.val = r.status]
Exc(e) == [Sig("exc") EXCEPT !.exc = e]
Suspend == Sig("suspend")
ResponseSig(r) == [Sig("response") EXCEPT !.resp = r]
WakeSig == Sig("wake")
GrantedSig == Sig("granted")

Top(S, c) == S.stack[c][Len(S.stack[c])]
Push(S, c, f) == [S EXCEPT !.stack[c] = Append(@, f)]
Pop(S, c) == [S EXCEPT !.stack[c] = SubSeq(@, 1, Len(@) - 1)]
SetTop(S, c, f) == [S EXCEPT !.stack[c][Len(S.stack[c])] = f]
Out(S, sig) == [S |-> S, sig |-> sig]


\* ------------------------------------------------------------ the lock
\* asyncio.Lock: acquire takes a free lock at once, otherwise the caller
\* queues; release hands the lock to the head of the queue.
\* (mutant) the lock is kept
Release_Never(S) == S

Release(S) ==
    IF S.waiters = <<>>
    THEN [S EXCEPT !.lockOwner = 0]
    ELSE [S EXCEPT !.lockOwner = Head(S.waiters), !.waiters = Tail(S.waiters)]

NoLock(fn) ==
    IF fn = "_authenticate" THEN "_authenticate_nolock" ELSE "_refresh_access_token_nolock"

\* (mutant) the lock is taken without waiting for its holder
locked_call_NoWait(S, c, fn) ==
    Out(Push([S EXCEPT !.lockOwner = c, !.hist[c].nLock = @ + 1], c, Frame(fn, "locked")),
        CallSig(NoLock(fn)))

\* _authenticate / _refresh_access_token: `async with self._async_lock`
locked_call(S, c, fn) ==
    IF S.lockOwner = 0
    THEN Out(Push([S EXCEPT !.lockOwner = c, !.hist[c].nLock = @ + 1],
                  c, Frame(fn, "locked")),
             CallSig(NoLock(fn)))
    ELSE Out(Push([S EXCEPT !.waiters = Append(@, c), !.hist[c].waited = TRUE],
                  c, Frame(fn, "wait_lock")),
             Suspend)

\* (mutant) the lock is released on a normal exit only
locked_resume_KeepOnRaise(S, c, sig) ==
    IF sig.t = "granted"
    THEN Out(SetTop([S EXCEPT !.hist[c].nLock = @ + 1], c, Frame(Top(S, c).fn, "locked")),
             CallSig(NoLock(Top(S, c).fn)))
    ELSE IF sig.t = "exc" THEN Out(Pop(S, c), sig)
    ELSE Out(Pop(Release(S), c), sig)

locked_resume(S, c, sig) ==
    IF sig.t = "granted"
    THEN Out(SetTop([S EXCEPT !.hist[c].nLock = @ + 1], c, Frame(Top(S, c).fn, "locked")),
             CallSig(NoLock(Top(S, c).fn)))
    ELSE Out(Pop(Release(S), c), sig)

\* ------------------------------------------------------------ get_token
\* (mutant) the refresh token's expiry is not looked at
GetTokenBranch_NoRefreshExpiry(a, t) ==
    IF ~has_access_token(a) THEN "authenticate"
    ELSE IF is_access_expired(a, t, Leeway) THEN "refresh"
    ELSE "cached"

\* (mutant) a cached, unexpired token is refreshed all the same
GetTokenBranch_AlwaysRefresh(a, t) ==
    IF ~has_access_token(a) \/ is_refresh_expired(a, t, Leeway) THEN "authenticate"
    ELSE "refresh"

GetTokenBranch(a, t) ==
    IF ~has_access_token(a) \/ is_refresh_expired(a, t, Leeway) THEN "authenticate"
    ELSE IF is_access_expired(a, t, Leeway) THEN "refresh"
    ELSE "cached"

\* (mutant) the token handed out without looking
get_access_token_Unchecked(a) == RetVal(a.access_token)

get_access_token(a) ==
    IF has_access_token(a) THEN RetVal(a.access_token) ELSE Exc(AuthError)

get_token_call(S, c) ==
    LET branch == GetTokenBranch(S.auth, S.now)
        S1 == Push([S EXCEPT !.hist[c].gtBranch = branch,
                             !.hist[c].gtAuth = S.auth,
                             !.hist[c].gtNow = S.now],
                   c, Frame("get_token", "await"))
    IN  IF branch = "authenticate" THEN Out(S1, CallSig("_authenticate"))
        ELSE IF branch = "refresh" THEN Out(S1, CallSig("_refresh_access_token"))
        ELSE Out(S1, Ret)

get_token_resume(S, c, sig) ==
    IF sig.t = "exc" THEN Out(Pop(S, c), sig)
    ELSE Out(Pop(S, c), get_access_token(S.auth))

\* ------------------------------------------------- authenticate, refresh
\* (mutant) only the access token and its expiry are replaced
InstallToken_AccessOnly(S, c, resp) ==
    IF resp.body.token.valid
    THEN Out(Pop([S EXCEPT !.auth.access_token = S.issued,
                           !.auth.access_token_expiry = S.now + resp.body.token.expires_in],
                 c), Ret)
    ELSE Out(Pop(S, c), Exc(ValidationError))

\* (mutant) the state is updated before the payload is validated
InstallToken_Unvalidated(S, c, resp) ==
    LET S1 == [S EXCEPT !.auth = update(S.auth, S.issued, resp.body.token, S.now)]
    IN  IF resp.body.token.valid THEN Out(Pop(S1, c), Ret)
        ELSE Out(Pop(S1, c), Exc(ValidationError))

\* TokenResponse.model_validate(response.json()); self._auth_state.update(..)
InstallToken(S, c, resp) ==
    IF resp.body.token.valid
    THEN Out(Pop([S EXCEPT !.auth = update(S.auth, S.issued, resp.body.token, S.now)], c), Ret)
    ELSE Out(Pop(S, c), Exc(ValidationError))

authenticate_nolock_call(S, c) ==
    Out(Push(S, c, Frame("_authenticate_nolock", "await_request")),
        CallRequest("token", DefaultRetries))

authenticate_nolock_resume(S, c, sig) ==
    IF sig.t = "exc" THEN Out(Pop(S, c), sig)
    ELSE InstallToken(S, c, sig.resp)

\* (mutant) the guard dropped: refresh always goes on
RefreshNeeded_NoRecheck(a, t) == TRUE

\* The guard of line 198: refresh goes on only if the access token is expired.
RefreshNeeded(a, t) == is_access_expired(a, t, Leeway)

\* (mutant) the refresh token is always taken for usable
RefreshExpired_Never(a, t) == FALSE

\* The guard of line 201: with the refresh token expired, authenticate.
RefreshExpired(a, t) == is_refresh_expired(a, t, Leeway)

\* what the refresh finds on entry, noted in the caller's history
LogEntry(S, c) ==
    [S EXCEPT !.hist[c].refEntry =
        [seen |-> TRUE,
         access_expired |-> is_access_expired(S.auth, S.now, Leeway),
         refresh_expired |-> is_refresh_expired(S.auth, S.now, Leeway),
         nTok |-> S.hist[c].nTok, nRef |-> S.hist[c].nRef, nLock |-> S.hist[c].nLock]]

refresh_access_token_nolock_call(S, c) ==
    LET S1 == LogEntry(S, c)
    IN  IF ~RefreshNeeded(S.auth, S.now) THEN Out(S1, Ret)
        ELSE IF RefreshExpired(S.auth, S.now)
        THEN Out(Push(S1, c, Frame("_refresh_access_token_nolock", "await_auth")),
                 CallSig("_authenticate_nolock"))
        ELSE Out(Push(S1, c, Frame("_refresh_access_token_nolock", "await_request")),
                 CallRequest("refresh", DefaultRetries))

refresh_access_token_nolock_resume(S, c, sig) ==
    IF sig.t = "exc" THEN Out(Pop(S, c), sig)
    ELSE IF Top(S, c).pc = "await_auth" THEN Out(Pop(S, c), Ret)
    ELSE IF is_success(sig.resp.status) THEN InstallToken(S, c, sig.resp)
    ELSE Out(SetTop(S, c, Frame("_refresh_access_token_nolock", "await_auth")),
             CallSig("_authenticate_nolock"))

\* -------------------------------------------------------------- _request
\* self._client.request(method, url, **kwargs): the request leaves
\* A data-plane request carries the Authorization header of its kwargs, the
\* token _headers() got; `sent` notes it and `cached` the token cached then.
CountSend(S, c, kind) ==
    IF kind = "token"
    THEN [S EXCEPT !.hist[c].nTok = @ + 1, !.hist[c].reqs = Append(@, kind)]
    ELSE IF kind = "refresh"
    THEN [S EXCEPT !.hist[c].nRef = @ + 1, !.hist[c].reqs = Append(@, kind)]
    ELSE [S EXCEPT !.hist[c].nData = @ + 1,
                   !.hist[c].reqs = Append(@, kind),
                   !.hist[c].sent = Append(@, S.hist[c].hdrTok),
                   !.hist[c].cached = Append(@, S.auth.access_token)]

CountSleep(S, c, kind) ==
    IF kind = "data" THEN [S EXCEPT !.hist[c].nSleep = @ + 1] ELSE S

\* the response just received, noted in the caller's history
LogResponse(S, c, kind, resp) ==
    IF kind = "data" THEN [S EXCEPT !.hist[c].dp = Append(@, resp.status)]
    ELSE IF kind = "token" /\ S.hist[c].tokFirst = 0
    THEN [S EXCEPT !.hist[c].tokFirst = resp.status]
    ELSE IF kind = "refresh" /\ S.hist[c].refFirst = 0
    THEN [S EXCEPT !.hist[c].refFirst = resp.status]
    ELSE S

\* the deterministic part of the sleep before retry `attempt`, noted in the
\* caller's history with the base delay and the attempt
LogDelay(S, c, delay, attempt) ==
    [S EXCEPT !.hist[c].delays =
        Append(@, [base |-> delay, attempt |-> attempt, sleep |-> backoff(delay, attempt)])]

request_call(S, c, kind, retries) ==
    LET S1 == IF kind = "data" THEN S ELSE [S EXCEPT !.hist[c].exAuth = S.auth]
    IN  Out(Push(CountSend(S1, c, kind), c, RequestFrame(kind, retries, "await_first")),
            Suspend)

\* lines 156-159: raise through handle_error on 4xx/5xx, else return
request_final(S, c, resp) ==
    LET S1 == IF Top(S, c).kind = "data" THEN [S EXCEPT !.hist[c].last = resp] ELSE S
    IN  IF is_error(resp.status)
        THEN Out(Pop(S1, c), Exc(handle_error(resp)))
        ELSE Out(Pop(S1, c), RetResp(resp))

\* (mutant) every client error is taken for a 401
Is401_Any4xx(status) == is_client_error(status)

\* line 140
Is401(status) == status = 401
\* line 145
IsRetryable(status) == is_server_error(status)
\* (mutant) the retry loop never ends early
RetryBreaks_Never(status) == FALSE

\* line 153: the retry loop ends early on this
RetryBreaks(status) == is_success(status)
\* (mutant) one attempt more than the budget
HasNextAttempt_OneMore(attempt, retries) == attempt <= retries

\* line 147: range(1, retries + 1) has a next attempt after `attempt`
HasNextAttempt(attempt, retries) == attempt + 1 <= retries

request_sleep(S, c, f) ==
    LET S1 == IF f.kind = "data"
              THEN LogDelay(CountSleep(S, c, f.kind), c, DefaultDelay, f.attempt + 1)
              ELSE S
    IN  Out(SetTop(S1, c, [f EXCEPT !.pc = "sleep", !.attempt = @ + 1]), Suspend)

\* _request after its first send; `refresh` is the refresh it calls on a 401
request_steps(S, c, sig, refresh) ==
    LET f == Top(S, c)
        status == sig.resp.status
        S0 == IF sig.t = "response" THEN LogResponse(S, c, f.kind, sig.resp) ELSE S
    IN  CASE sig.t = "exc" -> Out(Pop(S, c), sig)
          [] sig.t = "response" /\ f.pc = "await_first" ->
                IF Is401(status)
                THEN Out(SetTop(IF f.kind = "data"
                                THEN [S0 EXCEPT !.hist[c].nRecover = @ + 1,
                                                !.hist[c].recoverFresh =
                                                    ~is_access_expired(S.auth, S.now,
                                                                       Leeway),
                                                !.hist[c].recAuth = S.auth]
                                ELSE S0,
                                c, [f EXCEPT !.pc = "await_refresh"]),
                         CallSig(refresh))
                ELSE IF IsRetryable(status) /\ HasNextAttempt(0, f.retries)
                THEN request_sleep(S0, c, f)
                ELSE request_final(S0, c, sig.resp)
          [] sig.t = "ret" /\ f.pc = "await_refresh" ->
                Out(SetTop(CountSend(S, c, f.kind), c, [f EXCEPT !.pc = "await_resend"]),
                    Suspend)
          [] sig.t = "response" /\ f.pc = "await_resend" -> request_final(S0, c, sig.resp)
          [] sig.t = "wake" ->
                Out(SetTop(CountSend(S, c, f.kind), c, [f EXCEPT !.pc = "await_retry"]),
                    Suspend)
          [] sig.t = "response" /\ f.pc = "await_retry" ->
                IF RetryBreaks(status) THEN request_final(S0, c, sig.resp)
                ELSE IF HasNextAttempt(f.attempt, f.retries) THEN request_sleep(S0, c, f)
                ELSE request_final(S0, c, sig.resp)

request_resume(S, c, sig) == request_steps(S, c, sig, "_refresh_access_token")

\* ------------------------------------------------------------ operations
\* A data-plane call as the API methods and the tests make it:
\*   self._request(method, url, retries=R, headers=await self._headers())
api_call(S, c, retries) ==
    Out(Push(S, c, [Frame("api", "headers") EXCEPT !.retries = retries]),
        CallSig("get_token"))

api_resume(S, c, sig) ==
    LET f == Top(S, c)
    IN  IF sig.t = "exc" THEN Out(Pop(S, c), sig)
        ELSE IF f.pc = "headers"
        THEN Out(SetTop([S EXCEPT !.hist[c].hdrTok = sig.val,
                                  !.hist[c].tok0 = S.hist[c].nTok,
                                  !.hist[c].ref0 = S.hist[c].nRef],
                        c, [f EXCEPT !.pc = "request"]),
                 CallRequest("data", f.retries))
        ELSE Out(Pop(S, c), sig)

\* ---------------------------------------------------------- payment_check
\* (mutant) polling goes on after a settlement was reported
PollBreaks_Never(count) == FALSE

\* lines 302 and 320: a count above zero ends the polling
PollBreaks(count) == count > 0

\* (mutant) one poll more than the budget
HasNextPoll_OneMore(attempt, payment_retries) == attempt <= payment_retries

\* line 305: range(1, payment_retries + 1) has a next attempt after `attempt`
HasNextPoll(attempt, payment_retries) == attempt + 1 <= payment_retries

\* (mutant) a failed check is reported as a count of zero
PollRaise_AsZero(S, c, sig) == Out(Pop(S, c), RetVal(0))

\* nothing in payment_check catches: what a check or _headers() raises
\* leaves payment_check as it is
PollRaise(S, c, sig) == Out(Pop(S, c), sig)

payment_check_call(S, c, payment_retries) ==
    Out(Push(S, c, [Frame("payment_check", "headers") EXCEPT !.retries = payment_retries]),
        CallSig("get_token"))

payment_check_resume(S, c, sig) ==
    LET f == Top(S, c)
        count == sig.resp.body.count
        S1 == [S EXCEPT !.hist[c].checks = Append(@, count)]
    IN  CASE sig.t = "exc" -> PollRaise(S, c, sig)
          [] sig.t = "ret" /\ f.pc = "headers" ->
                Out(SetTop([S EXCEPT !.hist[c].nCheck = @ + 1, !.hist[c].hdrTok = sig.val],
                           c, [f EXCEPT !.pc = "request"]),
                    CallRequest("data", DefaultRetries))
          [] sig.t = "ret" /\ f.pc = "request" ->
                IF PollBreaks(count) THEN Out(Pop(S1, c), RetVal(count))
                ELSE IF HasNextPoll(f.attempt, f.retries)
                THEN Out(SetTop(LogDelay([S1 EXCEPT !.hist[c].nPollSleep = @ + 1], c,
                                         S.hist[c].delay, f.attempt + 1),
                                c, [f EXCEPT !.pc = "sleep", !.attempt = @ + 1]),
                         Suspend)
                ELSE Out(Pop(S1, c), RetVal(count))
          [] sig.t = "wake" ->
                Out(SetTop(S, c, [f EXCEPT !.pc = "headers"]), CallSig("get_token"))

\* ------------------------------------------------- the synchronous client
\* QPayClientSync: the same calls without the lock and without awaits.
\* `self._auth_state.has_access_token` in get_token is the bound method, not
\* its result: an object that is always true.
sync_has_access_token_attr(a) == TRUE

SyncGetTokenBranch(a, t) ==
    IF ~sync_has_access_token_attr(a) \/ is_refresh_expired(a, t, Leeway) THEN "authenticate"
    ELSE IF is_access_expired(a, t, Leeway) THEN "refresh"
    ELSE "cached"

sync_get_token_call(S, c) ==
    LET branch == SyncGetTokenBranch(S.auth, S.now)
        S1 == Push([S EXCEPT !.hist[c].gtAuth = S.auth, !.hist[c].gtNow = S.now],
                   c, Frame("sync_get_token", "await"))
    IN  IF branch = "authenticate" THEN Out(S1, CallSig("sync_authenticate"))
        ELSE IF branch = "refresh" THEN Out(S1, CallSig("sync_refresh_access_token"))
        ELSE Out(S1, Ret)

sync_get_token_resume(S, c, sig) ==
    IF sig.t = "exc" THEN Out(Pop(S, c), sig)
    ELSE Out(Pop(S, c), get_access_token(S.auth))

sync_authenticate_call(S, c) ==
    Out(Push(S, c, Frame("sync_authenticate", "await_request")),
        SyncCallRequest("token", SyncDefaultRetries))

sync_authenticate_resume(S, c, sig) ==
    IF sig.t = "exc" THEN Out(Pop(S, c), sig)
    ELSE InstallToken(S, c, sig.resp)

sync_refresh_access_token_call(S, c) ==
    IF ~is_access_expired(S.auth, S.now, Leeway) THEN Out(S, Ret)
    ELSE IF is_refresh_expired(S.auth, S.now, Leeway)
    THEN Out(Push(S, c, Frame("sync_refresh_access_token", "await_auth")),
             CallSig("sync_authenticate"))
    ELSE Out(Push(S, c, Frame("sync_refresh_access_token", "await_request")),
             SyncCallRequest("refresh", SyncDefaultRetries))

sync_refresh_access_token_resume(S, c, sig) ==
    IF sig.t = "exc" THEN Out(Pop(S, c), sig)
    ELSE IF Top(S, c).pc = "await_auth" THEN Out(Pop(S, c), Ret)
    ELSE IF is_success(sig.resp.status) THEN InstallToken(S, c, sig.resp)
    ELSE Out(SetTop(S, c, Frame("sync_refresh_access_token", "await_auth")),
             CallSig("sync_authenticate"))

sync_request_call(S, c, kind, retries) ==
    Out(Push(CountSend(S, c, kind), c,
             [RequestFrame(kind, retries, "await_first") EXCEPT !.fn = "sync_request"]),
        Suspend)

sync_request_resume(S, c, sig) == request_steps(S, c, sig, "sync_refresh_access_token")

\* A data-plane call of the synchronous client with its defaults:
\*   self._request(method, url, headers=self._headers(), ...)
sync_api_call(S, c) ==
    Out(Push(S, c, [Frame("sync_api", "headers") EXCEPT !.retries = SyncDefaultRetries]),
        CallSig("sync_get_token"))

sync_api_resume(S, c, sig) ==
    LET f == Top(S, c)
    IN  IF sig.t = "exc" THEN Out(Pop(S, c), sig)
        ELSE IF f.pc = "headers"
        THEN Out(SetTop([S EXCEPT !.hist[c].hdrTok = sig.val,
                                  !.hist[c].tok0 = S.hist[c].nTok,
                                  !.hist[c].ref0 = S.hist[c].nRef],
                        c, [f EXCEPT !.pc = "request"]),
                 SyncCallRequest("data", f.retries))
        ELSE Out(Pop(S, c), sig)

\* the operation has ended: its value or its exception reaches the caller
finish(S, c, sig) ==
    Out([S EXCEPT !.result[c] =
            IF sig.t = "exc"
            THEN [kind |-> "raise", value |-> 0, exc |-> sig.exc]
            ELSE [kind |-> "return", value |-> sig.val, exc |-> NoExc]],
        Suspend)

Step(S, c, sig) ==
    IF sig.t = "call"
    THEN CASE sig.fn = "get_token" -> get_token_call(S, c)
           [] sig.fn \in {"_authenticate", "_refresh_access_token"} -> locked_call(S, c, sig.fn)
           [] sig.fn = "_authenticate_nolock" -> authenticate_nolock_call(S, c)
           [] sig.fn = "_refresh_access_token_nolock" -> refresh_access_token_nolock_call(S, c)
           [] sig.fn = "_request" -> request_call(S, c, sig.kind, sig.retries)
           [] sig.fn = "api" -> api_call(S, c, sig.retries)
           [] sig.fn = "payment_check" -> payment_check_call(S, c, sig.retries)
           [] sig.fn = "sync_get_token" -> sync_get_token_call(S, c)
           [] sig.fn = "sync_authenticate" -> sync_authenticate_call(S, c)
           [] sig.fn = "sync_refresh_access_token" -> sync_refresh_access_token_call(S, c)
           [] sig.fn = "sync_request" -> sync_request_call(S, c, sig.kind, sig.retries)
           [] sig.fn = "sync_api" -> sync_api_call(S, c)
    ELSE IF S.stack[c] = <<>> THEN finish(S, c, sig)
    ELSE CASE Top(S, c).fn = "get_token" -> get_token_resume(S, c, sig)
           [] Top(S, c).fn \in {"_authenticate", "_refresh_access_token"} -> locked_resume(S, c, sig)
           [] Top(S, c).fn = "_authenticate_nolock" -> authenticate_nolock_resume(S, c, sig)
           [] Top(S, c).fn = "_refresh_access_token_nolock" ->
                  refresh_access_token_nolock_resume(S, c, sig)
           [] Top(S, c).fn = "_request" -> request_resume(S, c, sig)
           [] Top(S, c).fn = "api" -> api_resume(S, c, sig)
           [] Top(S, c).fn = "payment_check" -> payment_check_resume(S, c, sig)
           [] Top(S, c).fn = "sync_get_token" -> sync_get_token_resume(S, c, sig)
           [] Top(S, c).fn = "sync_authenticate" -> sync_authenticate_resume(S, c, sig)
           [] Top(S, c).fn = "sync_refresh_access_token" ->
                  sync_refresh_access_token_resume(S, c, sig)
           [] Top(S, c).fn = "sync_request" -> sync_request_resume(S, c, sig)
           [] Top(S, c).fn = "sync_api" -> sync_api_resume(S, c, sig)

\* A caller runs from a signal to its next suspension.
RECURSIVE Run(_, _, _)
Run(S, c, sig) ==
    IF sig.t = "suspend" THEN S
    ELSE LET r == Step(S, c, sig) IN Run(r.S, c, r.sig)

\* ------------------------------------------------------------- the system
State ==
    [auth |-> auth, lockOwner |-> lockOwner, waiters |-> waiters, stack |-> stack,
     result |-> result, hist |-> hist, issued |-> issued, faults |-> faults,
     now |-> now]

Commit(S) ==
    /\ auth' = S.auth
    /\ lockOwner' = S.lockOwner
    /\ waiters' = S.waiters
    /\ stack' = S.stack
    /\ result' = S.result
    /\ hist' = S.hist
    /\ issued' = S.issued
    /\ faults' = S.faults
    /\ now' = S.now
    /\ UNCHANGED <<legacy, probe, pair>>

\* how a call on one client ended: whether it ended, the requests it sent in
\* order, what it returned or raised, and the credential state afterwards
NoOutcome == [done |-> FALSE, reqs |-> <<>>, result |-> NoResult, auth |-> InitAuth]
NoPair == [op |-> "none", answers |-> <<>>, async |-> NoOutcome, sync |-> NoOutcome]

NoProbe ==
    [op |-> "none", before |-> InitAuth, leeway |-> 0, leeway2 |-> 0,
     access_expired |-> FALSE, refresh_expired |-> FALSE,
     access_expired2 |-> FALSE, refresh_expired2 |-> FALSE,
     token_type |-> <<>>, normalized |-> <<>>, twice |-> <<>>,
     access_header |-> <<>>, refresh_header |-> <<>>,
     got |-> Sig("none")]

Init ==
    /\ auth \in InitAuths
    /\ lockOwner = 0
    /\ waiters = <<>>
    /\ stack = [c \in Callers |-> <<>>]
    /\ result = [c \in Callers |-> NoResult]
    /\ hist = [c \in Callers |-> NoHist]
    /\ issued = PriorToken
    /\ faults = 0
    /\ now = 0
    /\ legacy = [state |-> LegacyInit, calls |-> 0, last |-> NoLegacyCall]
    /\ probe = NoProbe
    /\ pair = NoPair

\* A credential state on its own, with any expiries and at any time.
ProbeAuths ==
    {InitAuth} \cup
    {[access_token |-> PriorToken, access_token_expiry |-> a,
      refresh_token |-> PriorToken, refresh_token_expiry |-> r] :
        a \in 0..MaxProbe, r \in 0..MaxProbe}

InitProbe ==
    /\ auth \in ProbeAuths
    /\ now \in 0..MaxProbe
    /\ lockOwner = 0
    /\ waiters = <<>>
    /\ stack = [c \in Callers |-> <<>>]
    /\ result = [c \in Callers |-> NoResult]
    /\ hist = [c \in Callers |-> NoHist]
    /\ issued = PriorToken
    /\ faults = 0
    /\ legacy = [state |-> LegacyInit, calls |-> 0, last |-> NoLegacyCall]
    /\ probe = NoProbe
    /\ pair = NoPair

\* Credential states of a synchronous client: those of Init, and states
\* without an access token whose expiry fields were set all the same.
SyncAuths ==
    InitAuths \cup
    {[InitAuth EXCEPT !.access_token_expiry = a, !.refresh_token_expiry = r] :
        a \in 0..MaxProbe, r \in 0..MaxProbe}

InitSync ==
    /\ auth \in SyncAuths
    /\ lockOwner = 0
    /\ waiters = <<>>
    /\ stack = [c \in Callers |-> <<>>]
    /\ result = [c \in Callers |-> NoResult]
    /\ hist = [c \in Callers |-> NoHist]
    /\ issued = PriorToken
    /\ faults = 0
    /\ now = 0
    /\ legacy = [state |-> LegacyInit, calls |-> 0, last |-> NoLegacyCall]
    /\ probe = NoProbe
    /\ pair = NoPair

Suspended(c) == stack[c] # <<>>
TopFrame(c) == stack[c][Len(stack[c])]
AwaitsResponse(c) ==
    /\ Suspended(c)
    /\ TopFrame(c).fn \in {"_request", "sync_request"}
    /\ TopFrame(c).pc \in {"await_first", "await_resend", "await_retry"}

\* a caller starts get_token()
StartGetToken(c) ==
    /\ hist[c].op = "none"
    /\ Commit(Run([State EXCEPT !.hist[c].op = "get_token",
                                !.hist[c].startNow = now,
                                !.hist[c].startIssued = issued],
                  c, CallSig("get_token")))

\* a caller starts a data-plane call with a retry budget of at most maxR
StartRequest(c, maxR) ==
    /\ hist[c].op = "none"
    /\ \E R \in 0..maxR :
          Commit(Run([State EXCEPT !.hist[c].op = "request",
                                   !.hist[c].retries = R,
                                   !.hist[c].startNow = now,
                                   !.hist[c].startIssued = issued],
                     c, [CallSig("api") EXCEPT !.retries = R]))

\* a caller starts payment_check() with a poll budget of at most maxA
StartPaymentCheck(c, maxA) ==
    /\ hist[c].op = "none"
    /\ \E A \in 0..maxA, d \in Delays :
          Commit(Run([State EXCEPT !.hist[c].op = "payment_check",
                                   !.hist[c].attempts = A,
                                   !.hist[c].delay = d,
                                   !.hist[c].startNow = now,
                                   !.hist[c].startIssued = issued],
                     c, [CallSig("payment_check") EXCEPT !.retries = A]))

\* get_token() on the synchronous client
StartSyncGetToken(c) ==
    /\ hist[c].op = "none"
    /\ Commit(Run([State EXCEPT !.hist[c].op = "sync_get_token",
                                !.hist[c].startNow = now,
                                !.hist[c].startIssued = issued],
                  c, CallSig("sync_get_token")))

\* a data-plane call on the synchronous client
StartSyncRequest(c) ==
    /\ hist[c].op = "none"
    /\ Commit(Run([State EXCEPT !.hist[c].op = "sync_request",
                                !.hist[c].retries = SyncDefaultRetries,
                                !.hist[c].startNow = now,
                                !.hist[c].startIssued = issued],
                  c, CallSig("sync_api")))

\* the response to the request a caller is waiting on arrives
Deliver(S, c, resp) ==
    LET newToken == resp.status = 200 /\ Top(S, c).kind # "data"
                      /\ resp.body.token.valid
        S1 == IF newToken THEN [S EXCEPT !.issued = @ + 1] ELSE S
    IN  Run(S1, c, ResponseSig(resp))

Receive(c, resp) == Deliver(State, c, resp)

\* An answer other than a plain success: a failure status, or a token payload
\* that is invalid or already within the leeway when issued.
IsFault(kind, resp) ==
    \/ resp.status # 200
    \/ /\ kind # "data"
       /\ resp.body.token # [valid |-> TRUE, expires_in |-> LongLife,
                                 refresh_expires_in |-> LongLife]

Respond(c) ==
    /\ AwaitsResponse(c)
    /\ \E resp \in Responses(TopFrame(c).kind) : Commit(Receive(c, resp))

\* the same, with at most MaxFaults answers that are not a plain success
RespondCoarse(c) ==
    /\ AwaitsResponse(c)
    /\ \E resp \in CoarseResponses(TopFrame(c).kind) :
          IF IsFault(TopFrame(c).kind, resp)
          THEN /\ faults < MaxFaults
               /\ Commit([Receive(c, resp) EXCEPT !.faults = @ + 1])
          ELSE Commit(Receive(c, resp))

\* the same for a poller: the coarse answers and the settlement counts, with at
\* most MaxFaults answers that are not a plain success
RespondPoll(c) ==
    /\ AwaitsResponse(c)
    /\ \E resp \in PollResponses(TopFrame(c).kind) :
          IF IsFault(TopFrame(c).kind, resp)
          THEN /\ faults < MaxFaults
               /\ Commit([Receive(c, resp) EXCEPT !.faults = @ + 1])
          ELSE Commit(Receive(c, resp))

\* a backoff sleep ends
Wake(c) ==
    /\ Suspended(c)
    /\ TopFrame(c).fn \in {"_request", "payment_check", "sync_request"}
    /\ TopFrame(c).pc = "sleep"
    /\ Commit(Run(State, c, WakeSig))

\* a waiter that was handed the lock goes on (a caller still queued has not
\* been handed it, even if it is the holder itself)
Granted(c) ==
    /\ Suspended(c)
    /\ TopFrame(c).pc = "wait_lock"
    /\ lockOwner = c
    /\ \A i \in 1..Len(waiters) : waiters[i] # c
    /\ Commit(Run(State, c, GrantedSig))

\* The answer with a given status to a request of a given kind: a 200 carries
\* a long-lived token for a token exchange, the plain body otherwise.
PairStatuses == {200, 401, 500}
AnswerFor(kind, status) ==
    CHOOSE r \in CoarseResponses(kind) :
        /\ r.status = status
        /\ (status = 200 /\ kind # "data") =>
              r.body.token = [valid |-> TRUE, expires_in |-> LongLife,
                              refresh_expires_in |-> LongLife]

\* One caller run against a sequence of answers, sleeping through its
\* backoffs, until its call has ended, the answers are used up or it is
\* blocked on the lock.
RECURSIVE Drive(_, _, _)
Drive(S, c, answers) ==
    IF S.stack[c] = <<>> THEN S
    ELSE IF Top(S, c).pc = "sleep" THEN Drive(Run(S, c, WakeSig), c, answers)
    ELSE IF Top(S, c).pc = "wait_lock" \/ answers = <<>> THEN S
    ELSE Drive(Deliver(S, c, AnswerFor(Top(S, c).kind, Head(answers))), c, Tail(answers))

Outcome(S, c) ==
    [done |-> S.stack[c] = <<>>, reqs |-> S.hist[c].reqs, result |-> S.result[c],
     auth |-> S.auth]

PairFrame ==
    UNCHANGED <<auth, lockOwner, waiters, stack, result, hist, issued, faults, now, legacy,
                probe>>

\* get_token() on a QPayClient and on a QPayClientSync in the same state,
\* against the same answers
PairGetToken ==
    /\ pair.op = "none"
    /\ \E answers \in [1..MaxAnswers -> PairStatuses] :
          pair' = [op |-> "get_token", answers |-> answers,
                   async |-> Outcome(Drive(Run(State, 1, CallSig("get_token")), 1, answers), 1),
                   sync |-> Outcome(Drive(Run(State, 1, CallSig("sync_get_token")), 1,
                                          answers), 1)]
    /\ PairFrame

\* a data-plane call with the defaults on both clients, likewise
PairRequest ==
    /\ pair.op = "none"
    /\ \E answers \in [1..MaxAnswers -> PairStatuses] :
          pair' = [op |-> "request", answers |-> answers,
                   async |-> Outcome(Drive(Run(State, 1, [CallSig("api") EXCEPT
                                                             !.retries = DefaultRetries]),
                                           1, answers), 1),
                   sync |-> Outcome(Drive(Run(State, 1, CallSig("sync_api")), 1, answers), 1)]
    /\ PairFrame

\* time passes
Tick ==
    /\ now < MaxTime
    /\ now' = now + 1
    /\ UNCHANGED <<auth, lockOwner, waiters, stack, result, hist, issued, faults, legacy,
                   probe, pair>>

\* get_token() on the legacy client: the whole synchronous call, with the
\* answers to the exchanges it makes.  `stale` notes whether the token cached
\* before the call was within the margin of its official expiry or past it.
LegacyGetToken ==
    /\ legacy.calls < MaxLegacyCalls
    /\ \E r1 \in LegacyResponses, r2 \in LegacyResponses :
          LET L == legacy.state
              out == legacy_get_token(L, now, r1, r2, legacy.calls + 1)
          IN  legacy' =
                [state |-> out.L,
                 calls |-> legacy.calls + 1,
                 last |-> [returned |-> ~out.raised,
                           value |-> IF out.raised THEN NoToken ELSE out.L.access_token,
                           stale |-> L.access_token # NoToken /\ now >= L.token_expiry,
                           exchanges |-> out.n]]
    /\ UNCHANGED <<auth, lockOwner, waiters, stack, result, hist, issued, faults, now,
                   probe, pair>>

\* Direct calls on the credential state.  Each leaves everything but `probe`
\* as it was, update excepted.
ProbeFrame ==
    UNCHANGED <<lockOwner, waiters, stack, result, hist, faults, now, legacy, pair>>

\* is_access_expired(leeway) and is_refresh_expired(leeway), with two leeways
ProbeExpired ==
    /\ \E L1 \in 0..MaxProbe, L2 \in 0..MaxProbe :
          probe' = [NoProbe EXCEPT
                      !.op = "expired", !.before = auth,
                      !.leeway = L1, !.leeway2 = L2,
                      !.access_expired = is_access_expired(auth, now, L1),
                      !.refresh_expired = is_refresh_expired(auth, now, L1),
                      !.access_expired2 = is_access_expired(auth, now, L2),
                      !.refresh_expired2 = is_refresh_expired(auth, now, L2)]
    /\ UNCHANGED <<auth, issued>>
    /\ ProbeFrame

\* access_as_header() and refresh_as_header() on a state with a token and
\* the given token_type; the normalization applied once and twice
ProbeHeader ==
    /\ has_access_token(auth)
    /\ \E tt \in TokenTypes :
          probe' = [NoProbe EXCEPT
                      !.op = "header", !.before = auth, !.token_type = tt,
                      !.normalized = normalize_to_capital(tt),
                      !.twice = normalize_to_capital(normalize_to_capital(tt)),
                      !.access_header = access_as_header(auth, tt),
                      !.refresh_header = refresh_as_header(auth, tt)]
    /\ UNCHANGED <<auth, issued>>
    /\ ProbeFrame

\* get_access_token()
ProbeGetAccessToken ==
    /\ probe' = [NoProbe EXCEPT !.op = "get_access_token", !.before = auth,
                                !.got = get_access_token(auth)]
    /\ UNCHANGED <<auth, issued>>
    /\ ProbeFrame

\* update(token_response)
ProbeUpdate ==
    /\ issued < PriorToken + MaxUpdates
    /\ \E p \in TokenPayloads :
          /\ p.valid
          /\ auth' = update(auth, issued + 1, p, now)
    /\ issued' = issued + 1
    /\ probe' = [NoProbe EXCEPT !.op = "update", !.before = auth]
    /\ ProbeFrame

\* Concurrent callers on one client.
Next ==
    \/ \E c \in Callers : StartGetToken(c)
    \/ \E c \in Callers : StartRequest(c, MaxRetries)
    \/ \E c \in Callers : RespondCoarse(c)
    \/ \E c \in Callers : Wake(c)
    \/ \E c \in Callers : Granted(c)
    \/ Tick

Spec == Init /\ [][Next]_vars

\* One caller, every status and body the server may answer with.
NextExec ==
    \/ StartGetToken(1)
    \/ StartRequest(1, MaxRetries)
    \/ Respond(1)
    \/ Wake(1)
    \/ Tick

SpecExec == Init /\ [][NextExec]_vars

\* One caller polling for a settlement.
NextPoll ==
    \/ StartPaymentCheck(1, MaxAttempts)
    \/ RespondPoll(1)
    \/ Wake(1)
    \/ Tick

SpecPoll == Init /\ [][NextPoll]_vars

\* One caller running any of the three operations.
NextOps ==
    \/ StartGetToken(1)
    \/ StartRequest(1, MaxRetries)
    \/ StartPaymentCheck(1, MaxAttempts)
    \/ RespondPoll(1)
    \/ Wake(1)
    \/ Tick

SpecOps == Init /\ [][NextOps]_vars

\* The legacy client, called again and again as time passes.
NextLegacy ==
    \/ LegacyGetToken
    \/ Tick

SpecLegacy == Init /\ [][NextLegacy]_vars

\* The synchronous client, one call at a time.
NextSync ==
    \/ StartSyncGetToken(1)
    \/ StartSyncRequest(1)
    \/ RespondCoarse(1)
    \/ Tick

SpecSync == InitSync /\ [][NextSync]_vars

\* Both clients, one call each from the same state.
NextPair ==
    \/ PairGetToken
    \/ PairRequest

SpecPair == Init /\ [][NextPair]_vars

\* The credential state called directly, from any state and at any time.
NextProbe ==
    \/ ProbeExpired
    \/ ProbeHeader
    \/ ProbeGetAccessToken
    \/ ProbeUpdate

SpecAuth == InitProbe /\ [][NextProbe]_vars


\* ================================================================== claims
Done(c) == result[c].kind # "none"
Returned(c) == result[c].kind = "return"
Raised(c) == result[c].kind = "raise"

RECURSIVE SumOver(_, _)
SumOver(f, S) ==
    IF S = {} THEN 0
    ELSE LET x == CHOOSE y \in S : TRUE IN f[x] + SumOver(f, S \ {x})

TotalTok == SumOver([c \in Callers |-> hist[c].nTok], Callers)
TotalRef == SumOver([c \in Callers |-> hist[c].nRef], Callers)

\* Every caller ran get_token(), took the given branch, and arrived before
\* any exchange of this run had been answered: the calls overlap.
ConcurrentGetTokens(branch) ==
    \A c \in Callers :
        /\ hist[c].op = "get_token"
        /\ hist[c].gtBranch = branch
        /\ hist[c].startIssued = PriorToken

\* C1: when all callers call get_token() concurrently on a client without a
\* usable credential and the server answers every exchange with a plain
\* success, exactly one POST /auth/token is sent in total and every caller
\* returns the token that exchange installed.
C1_OneAuthenticate ==
    (/\ ConcurrentGetTokens("authenticate")
     /\ faults = 0
     /\ \A c \in Callers : Done(c))
    => /\ TotalTok = 1
       /\ \A c \in Callers : Returned(c) /\ result[c].value = PriorToken + 1

\* The scenario of C2: concurrent get_token() calls that all found the access
\* token expired and the refresh token valid, every exchange answered with a
\* plain success, and no time gone by since the calls were made (the
\* refreshed token is within its lifetime).
C2_Scenario ==
    /\ ConcurrentGetTokens("refresh")
    /\ faults = 0
    /\ \A c \in Callers : Done(c) /\ hist[c].startNow = now

\* C2: in that scenario exactly one POST /auth/refresh is sent and no POST
\* /auth/token; the callers that got the lock after the update sent nothing,
\* and all callers return the refreshed token.
C2_OneRefresh ==
    C2_Scenario
    => /\ TotalRef = 1
       /\ TotalTok = 0
       /\ \A c \in Callers :
             /\ Returned(c)
             /\ result[c].value = PriorToken + 1
             /\ result[c].value = auth.access_token
             /\ hist[c].waited => hist[c].nRef = 0

\* C2 witness: the scenario, with a caller that had to wait for the lock.
C2_Witness ==
    /\ C2_Scenario
    /\ \E c \in Callers : hist[c].waited

\* The decision table of the specification, on the fields of the credential
\* state as get_token() found them.
TableBranch(a, t) ==
    IF a.access_token = NoToken \/ t + Leeway >= a.refresh_token_expiry THEN "authenticate"
    ELSE IF t + Leeway >= a.access_token_expiry THEN "refresh"
    ELSE "cached"

C3_Table ==
    \A c \in Callers :
        hist[c].gtBranch # "none" =>
            /\ hist[c].gtBranch = TableBranch(hist[c].gtAuth, hist[c].gtNow)
            \* with the lock free, the branch taken is the exchange sent first
            /\ (hist[c].op = "get_token" /\ ~hist[c].waited) =>
                  /\ hist[c].gtBranch = "authenticate" => hist[c].nTok >= 1 /\ hist[c].nRef = 0
                  /\ hist[c].gtBranch = "refresh" => hist[c].nRef >= 1
                  /\ hist[c].gtBranch = "cached" =>
                        hist[c].nTok = 0 /\ hist[c].nRef = 0 /\ Returned(c)

C3_ReturnsCached ==
    \A c \in Callers :
        (hist'[c].op = "get_token" /\ ~Done(c) /\ result'[c].kind = "return")
            => result'[c].value = auth'.access_token

\* C3: get_token() takes the branch the table gives for the credential state
\* it finds (authenticate, refresh or cached), and the value it returns is the
\* access token cached at the moment it returns.
C3_GetTokenTable == [](C3_Table) /\ [][C3_ReturnsCached]_vars

\* C3 witness: the three branches have all been taken, one by a caller that
\* returned its token.
C3_Witness ==
    \E c, d \in Callers :
        /\ hist[c].gtBranch = "refresh" /\ Returned(c) /\ hist[c].op = "get_token"
        /\ hist[d].gtBranch = "cached" /\ Returned(d)


\* ------------------------------------------------------------ the executor
\* A caller whose data-plane call has received these statuses, in order.
Requested(c) == hist[c].op = "request"
AuthSent(c) == (hist[c].nTok - hist[c].tok0) + (hist[c].nRef - hist[c].ref0)

\* C4: a 401 answered by a 200 on the resend makes the executor perform
\* exactly one refresh exchange, also when the cached token is not locally
\* expired, send the request exactly twice and return the 200.
C4_ForcedRefresh ==
    \A c \in Callers :
        (Requested(c) /\ Done(c) /\ hist[c].dp = <<401, 200>>)
            => /\ hist[c].nRef - hist[c].ref0 = 1
               /\ hist[c].nData = 2
               /\ Returned(c) /\ result[c].value = 200

\* C5: a 401 answered by another 401 on the resend ends in a QPayError with
\* status 401, after exactly two sends and one 401 recovery.
C5_Second401Raises ==
    \A c \in Callers :
        (Requested(c) /\ Done(c) /\ hist[c].dp = <<401, 401>>)
            => /\ Raised(c)
               /\ result[c].exc.type = "QPayError"
               /\ result[c].exc.status_code = 401
               /\ hist[c].nData = 2
               /\ hist[c].nRecover = 1

\* C6: when the first answer and every retry's answer is a 5xx, exactly
\* retries + 1 requests are sent and the call ends in a QPayError.
C6_ExhaustedRetries ==
    \A c \in Callers :
        (/\ Requested(c) /\ Done(c) /\ hist[c].dp # <<>>
         /\ \A i \in 1..Len(hist[c].dp) : is_server_error(hist[c].dp[i]))
            => /\ hist[c].nData = hist[c].retries + 1
               /\ Raised(c)
               /\ result[c].exc.type = "QPayError"

\* C7: after a first 5xx, the first 2xx among the retries is the last answer
\* received and the last request sent, and it is returned without raising.
C7_SuccessEndsRetries ==
    \A c \in Callers :
        \A k \in 2..Len(hist[c].dp) :
            (Requested(c) /\ is_server_error(hist[c].dp[1]) /\ is_success(hist[c].dp[k]))
                => /\ k = Len(hist[c].dp)
                   /\ k <= hist[c].retries + 1
                   /\ hist[c].nData = k
                   /\ stack[c] = <<>>
                   /\ Returned(c) /\ result[c].value = hist[c].dp[k]

\* C7 witness: a 5xx, a retry that failed, then a retry that succeeded.
C7_Witness ==
    \E c \in Callers :
        /\ Requested(c) /\ Returned(c)
        /\ Len(hist[c].dp) = 3
        /\ is_server_error(hist[c].dp[1]) /\ ~is_success(hist[c].dp[2])
        /\ is_success(hist[c].dp[3])

\* C8: a first answer that is a 4xx other than 401 ends the call at once in
\* an error: one send, no resend, no exchange with the auth endpoints after
\* the request was sent, no 401 recovery and no backoff sleep.
C8_ClientErrorImmediate ==
    \A c \in Callers :
        (/\ Requested(c) /\ hist[c].dp # <<>>
         /\ is_client_error(hist[c].dp[1]) /\ hist[c].dp[1] # 401)
            => /\ Len(hist[c].dp) = 1
               /\ hist[c].nData = 1
               /\ AuthSent(c) = 0
               /\ hist[c].nRecover = 0
               /\ hist[c].nSleep = 0
               /\ stack[c] = <<>>
               /\ Raised(c)

\* C8 witness: a call with a retry budget whose first answer was a 404.
C8_Witness ==
    \E c \in Callers :
        /\ Requested(c) /\ Raised(c)
        /\ hist[c].retries > 0
        /\ hist[c].dp = <<404>>

\* the data-plane call of c has ended on a response (not on a failure to get
\* a token)
EndedOnResponse(c) == Requested(c) /\ Done(c) /\ hist[c].last.status # 0

\* C9: a final 4xx/5xx whose body carries a `message` raises a QPayError with
\* that status and that message as error_key; a final success does not raise.
C9_DomainError ==
    \A c \in Callers :
        (EndedOnResponse(c) /\ hist[c].last.body.is_json /\ hist[c].last.body.has_message)
            => IF is_error(hist[c].last.status)
               THEN /\ Raised(c)
                    /\ result[c].exc =
                          QPayError(hist[c].last.status, hist[c].last.body.message)
               ELSE Returned(c)

\* C10: a final 4xx/5xx whose body is not JSON or carries no `message` raises
\* a QPayError with that status and the empty error_key.
C10_EmptyKey ==
    \A c \in Callers :
        (/\ EndedOnResponse(c) /\ is_error(hist[c].last.status)
         /\ (~hist[c].last.body.is_json \/ ~hist[c].last.body.has_message))
            => /\ Raised(c)
               /\ result[c].exc = QPayError(hist[c].last.status, "")

\* --------------------------------------------------------------- the poller
Polled(c) == hist[c].op = "payment_check"
AllOk(c) == \A i \in 1..Len(hist[c].dp) : hist[c].dp[i] = 200
AllZero(c) == \A i \in 1..Len(hist[c].checks) : hist[c].checks[i] = 0

\* C11: the first check whose count is above zero is the last one issued: it
\* is check number k <= payment_retries + 1, exactly k checks were issued
\* (k requests when every answer was a 200), the call has ended and it
\* returned the result of that k-th check.
C11_FirstSettledCheckReturned ==
    \A c \in Callers :
        \A k \in 1..Len(hist[c].checks) :
            (Polled(c) /\ hist[c].checks[k] > 0)
                => /\ k = Len(hist[c].checks)
                   /\ k <= hist[c].attempts + 1
                   /\ hist[c].nCheck = k
                   /\ AllOk(c) => hist[c].nData = k
                   /\ stack[c] = <<>>
                   /\ Returned(c)
                   /\ result[c].value = hist[c].checks[k]
                   /\ hist[c].last.body.count = hist[c].checks[k]

\* C11 witness: a poller with budget left that stopped at its second check,
\* the first with a count above zero.
C11_Witness ==
    \E c \in Callers :
        /\ Polled(c) /\ Returned(c)
        /\ hist[c].attempts = MaxAttempts
        /\ Len(hist[c].checks) = 2
        /\ hist[c].checks[1] = 0 /\ hist[c].checks[2] > 0

\* C12: a poller never issues more than payment_retries + 1 checks.  When
\* every check reported count = 0, a poller that returns has issued exactly
\* payment_retries + 1 checks and slept payment_retries times between them,
\* and returns the last zero-count result; when every answer was a 200 that
\* is payment_retries + 1 requests and no retry sleep (with payment_retries =
\* 0: one request, no sleep at all).  With no failed answer at all the poller
\* does return: running out of budget is no error.
C12_ExhaustedPollReturnsZero ==
    \A c \in Callers :
        Polled(c) =>
            /\ hist[c].nCheck <= hist[c].attempts + 1
            /\ (Returned(c) /\ AllZero(c))
                  => /\ hist[c].nCheck = hist[c].attempts + 1
                     /\ Len(hist[c].checks) = hist[c].nCheck
                     /\ hist[c].nPollSleep = hist[c].attempts
                     /\ result[c].value = 0
                     /\ hist[c].last.body.count = 0
                     /\ AllOk(c) => /\ hist[c].nData = hist[c].attempts + 1
                                    /\ hist[c].nSleep = 0
            /\ (Done(c) /\ faults = 0) => Returned(c)

\* C12 witness: a poller that used up its whole budget on zero counts and
\* returned.
C12_Witness ==
    \E c \in Callers :
        /\ Polled(c) /\ Returned(c) /\ AllZero(c)
        /\ hist[c].attempts = MaxAttempts
        /\ Len(hist[c].checks) = hist[c].attempts + 1

\* -------------------------------------------------------------- termination
\* What a suspended caller waits for: an answer (httpx answers or times
\* out), the end of a sleep, or the lock.  A caller queued on the lock goes on
\* once the holder releases it; a holder queued on its own lock never does.
Sleeping(c) == Suspended(c) /\ TopFrame(c).pc = "sleep"
WaitsLock(c) == Suspended(c) /\ TopFrame(c).pc = "wait_lock"
Queued(c) == \E i \in 1..Len(waiters) : waiters[i] = c
CanGoOn(c) ==
    \/ AwaitsResponse(c)
    \/ Sleeping(c)
    \/ WaitsLock(c) /\ lockOwner # 0 /\ ~(lockOwner = c /\ Queued(c))

\* C13: an operation that has started and not yet ended can always go on
\* towards its end, whatever the server has answered (a 401 or a 5xx from
\* /auth/token or /auth/refresh included): it is never left waiting for
\* something that cannot happen.
C13_Terminates ==
    \A c \in Callers :
        (hist[c].op # "none" /\ ~Done(c)) => Suspended(c) /\ CanGoOn(c)

\* ------------------------------------------------- failed auth exchanges
\* C14: when the first answer to POST /auth/token is a 4xx (401 included),
\* the operation that needed the token has ended at once by raising a
\* QPayError with that status: no hang, no further exchange.
C14_AuthFailureRaises ==
    \A c \in Callers :
        is_client_error(hist[c].tokFirst)
            => /\ stack[c] = <<>>
               /\ Raised(c)
               /\ result[c].exc.type = "QPayError"
               /\ result[c].exc.status_code = hist[c].tokFirst
               /\ hist[c].nTok = 1

\* C15: when the first answer to POST /auth/refresh is a 4xx, the caller
\* has gone on to a full authenticate (a POST /auth/token has been sent)
\* instead of raising, and if that exchange installed a token, get_token()
\* returns it.
C15_RefreshFallsBack ==
    \A c \in Callers :
        is_client_error(hist[c].refFirst)
            => /\ hist[c].nTok >= 1
               /\ ~(Raised(c) /\ hist[c].tokFirst = 0)
               /\ (hist[c].op = "get_token" /\ Done(c) /\ hist[c].tokFirst = 200
                     /\ auth.access_token # hist[c].gtAuth.access_token)
                     => Returned(c) /\ result[c].value = auth.access_token

\* --------------------------------------------------- the credential state
\* The four fields are those one successful exchange gave (the token pair
\* of one response, both expiries counted from the moment it was installed),
\* or all are still initial.
FromOneExchange(a) ==
    \/ a = InitAuth
    \/ \E p \in TokenPayloads, t \in 0..MaxTime :
          p.valid /\ a = update(InitAuth, a.access_token, p, t)

\* C16: in every reachable state the credential state comes from one
\* exchange, and so does every snapshot a caller read in get_token() without
\* holding the lock, at whatever point of the other callers' exchanges.
C16_OneExchange ==
    /\ FromOneExchange(auth)
    /\ \A c \in Callers : FromOneExchange(hist[c].gtAuth)

\* C16 witness: a caller read, without the lock, credentials that an exchange
\* of this run had installed, while another exchange is in flight.
C16_Witness ==
    \E c, d \in Callers :
        /\ hist[c].gtBranch # "none"
        /\ hist[c].gtAuth.access_token > PriorToken
        /\ lockOwner = d /\ AwaitsResponse(d)

\* -------------------------------------------------------- the legacy client
\* C17: a get_token() of the legacy client that found its cached token within
\* the margin of its official expiry, or past it, and returned, has made a
\* refresh or authenticate exchange first.
C17_LegacyRefreshesBeforeExpiry ==
    (legacy.last.returned /\ legacy.last.stale) => legacy.last.exchanges >= 1

\* ------------------------------------------------------ the credential lock
No401(c) == \A i \in 1..Len(hist[c].dp) : hist[c].dp[i] # 401

C19_NoSleepUnderLock ==
    \A c \in Callers : Sleeping(c) => lockOwner # c

\* ------------------------------------------------------------------ backoff
\* fractions with positive denominators
FracEq(x, y) == x.num * y.den = y.num * x.den
FracLess(x, y) == x.num * y.den < y.num * x.den
Frac(n) == [num |-> n, den |-> 1]

\* base * 2^(k-1)
Doubling(base, k) == [num |-> base.num * Pow(2, k - 1), den |-> base.den]

\* C20: the deterministic part of every sleep taken before retry k, in the
\* 5xx retry and in the polling, is base * 2^(k-1), and the jitter added to
\* it lies in [0, jitter).
C20_ExponentialBackoff ==
    /\ \A c \in Callers :
          \A i \in 1..Len(hist[c].delays) :
              FracEq(hist[c].delays[i].sleep,
                     Doubling(hist[c].delays[i].base, hist[c].delays[i].attempt))
    /\ \A r \in RandomValues :
          /\ ~FracLess(jitter_term(r, DefaultJitter), Frac(0))
          /\ FracLess(jitter_term(r, DefaultJitter), DefaultJitter)

\* ------------------------------------------- the credential state, directly
\* C21: is_access_expired(leeway) is true exactly when now + leeway >= the
\* access expiry, is_refresh_expired(leeway) exactly when now + leeway >= the
\* refresh expiry; at now + leeway = expiry the token counts as expired.
C21_ExpiredIffWithinLeeway ==
    probe.op = "expired" =>
        /\ probe.access_expired <=> (now + probe.leeway >= auth.access_token_expiry)
        /\ probe.refresh_expired <=> (now + probe.leeway >= auth.refresh_token_expiry)
        /\ now + probe.leeway = auth.access_token_expiry => probe.access_expired
        /\ now + probe.leeway = auth.refresh_token_expiry => probe.refresh_expired

\* C21 witness: the check made exactly at the boundary of the access token,
\* with a refresh token that is not yet within the leeway.
C21_Witness ==
    /\ probe.op = "expired"
    /\ has_access_token(auth)
    /\ now + probe.leeway = auth.access_token_expiry
    /\ probe.access_expired /\ ~probe.refresh_expired

\* C22: at one clock value and expiry, a token reported expired with a
\* leeway is reported expired with every leeway at least as large.
C22_MonotonicInLeeway ==
    (probe.op = "expired" /\ probe.leeway <= probe.leeway2) =>
        /\ probe.access_expired => probe.access_expired2
        /\ probe.refresh_expired => probe.refresh_expired2

\* C22 witness: the refresh token is reported valid with the smaller leeway
\* and expired with the larger, the access token expired with both.
C22_Witness ==
    /\ probe.op = "expired" /\ probe.leeway < probe.leeway2
    /\ ~probe.refresh_expired /\ probe.refresh_expired2
    /\ probe.access_expired /\ probe.access_expired2

SameLetters(s, w) == Len(s) = Len(w) /\ \A i \in 1..Len(s) : LowerOf(s[i]) = LowerOf(w[i])

\* C23: every case variant of "bearer" is normalized to "Bearer", the empty
\* string to itself, normalizing twice gives what normalizing once gives, and
\* the two headers are the normalized type, a space and the access
\* (respectively refresh) token.
C23_TokenTypeNormalized ==
    probe.op = "header" =>
        /\ SameLetters(probe.token_type, Bearer)
              => probe.normalized = <<"B", "e", "a", "r", "e", "r">>
        /\ probe.token_type = <<>> => probe.normalized = <<>>
        /\ probe.twice = probe.normalized
        /\ Len(probe.normalized) = Len(probe.token_type)
        /\ probe.access_header =
              probe.normalized \o <<" ">> \o TokenText(auth.access_token)
        /\ probe.refresh_header =
              probe.normalized \o <<" ">> \o TokenText(auth.refresh_token)

\* C23 witness: the headers of a state whose token type is "BeArEr", after
\* an update gave it its tokens.
C23_Witness ==
    /\ probe.op = "header"
    /\ probe.token_type = <<"B", "e", "A", "r", "E", "r">>
    /\ auth.access_token > PriorToken

\* C24: get_access_token() on a state in which no token was ever set raises
\* AuthError; on a state with a token it returns that token (after an update,
\* the one the update installed).  Either way the credential state is left
\* as it was and no exchange has been made.
C24_GetAccessToken ==
    /\ probe.op = "get_access_token" =>
          /\ probe.before.access_token = NoToken => probe.got = Exc(AuthError)
          /\ probe.before.access_token # NoToken
                => probe.got = RetVal(probe.before.access_token)
          /\ auth = probe.before
          /\ \A c \in Callers : hist[c].nTok = 0 /\ hist[c].nRef = 0 /\ hist[c].nData = 0
    /\ probe.op = "update" => auth.access_token = issued /\ has_access_token(auth)

\* C24 witness: the call on the initial state has raised.
C24_Witness ==
    /\ probe.op = "get_access_token"
    /\ auth = InitAuth
    /\ probe.got.t = "exc"

\* ------------------------------------------------ the lock and the exchanges
\* caller c has an authenticate or refresh exchange open: a _request for
\* /auth/token or /auth/refresh that has not returned yet
ExchangeOpen(c) ==
    \E i \in 1..Len(stack[c]) : stack[c][i].fn = "_request" /\ stack[c][i].kind # "data"

\* C25: at most one authenticate/refresh exchange is open at any time, the
\* one of the holder of the credential lock; and every step that changes the
\* credential state is a step of the caller that holds the lock.
C25_ExchangesUnderLock ==
    /\ [](\A c \in Callers : ExchangeOpen(c) => lockOwner = c)
    /\ [](\A c, d \in Callers : (ExchangeOpen(c) /\ ExchangeOpen(d)) => c = d)
    /\ [][auth' # auth =>
            \E c \in Callers : lockOwner = c /\ ExchangeOpen(c) /\ stack'[c] # stack[c]]_vars

\* C25 witness: a caller that had to wait for the lock now holds it with its
\* exchange in flight, after the previous holder installed a token.
C25_Witness ==
    \E c \in Callers :
        /\ lockOwner = c /\ hist[c].waited
        /\ ExchangeOpen(c) /\ AwaitsResponse(c)
        /\ auth.access_token > PriorToken
        /\ \E d \in Callers \ {c} : Returned(d) /\ hist[d].nTok + hist[d].nRef > 0

\* ------------------------------------------------------ the cached fast path
C30_Step ==
    \A c \in Callers :
        (hist[c].op = "none" /\ hist'[c].op = "get_token"
            /\ TableBranch(auth, now) = "cached") =>
            /\ auth' = auth /\ issued' = issued
            /\ lockOwner' = lockOwner /\ waiters' = waiters
            /\ hist'[c].nLock = 0 /\ ~hist'[c].waited
            /\ hist'[c].nTok = 0 /\ hist'[c].nRef = 0 /\ hist'[c].nData = 0
            /\ stack'[c] = <<>>
            /\ result'[c] = [kind |-> "return", value |-> auth.access_token, exc |-> NoExc]
            /\ \A d \in Callers :
                  (hist[d].op = "get_token" /\ Returned(d)
                      /\ result[d].value = auth.access_token)
                      => result'[c].value = result[d].value

\* C30: get_token() called while a token is cached and neither the access
\* nor the refresh token is expired makes no HTTP exchange, does not take
\* the credential lock, leaves the credential state as it was and returns
\* the cached token, the one the previous call returned.
C30_CachedFastPath == [][C30_Step]_vars

\* C30 witness: a caller got its token by an exchange, and a later caller
\* found it cached and returned the same token without lock or exchange.
C30_Witness ==
    \E c, d \in Callers :
        /\ c # d
        /\ hist[d].op = "get_token" /\ Returned(d) /\ hist[d].nTok = 1
        /\ hist[c].op = "get_token" /\ Returned(c) /\ hist[c].gtBranch = "cached"
        /\ hist[c].nLock = 0 /\ hist[c].nTok = 0 /\ hist[c].nRef = 0
        /\ result[c].value = result[d].value
        /\ result[c].value = auth.access_token

\* ------------------------------------------------------ the 401 recovery
\* C26: when a request is answered 401 while the cached access token is not
\* locally expired, the request is sent again exactly once, no authenticate
\* or refresh exchange is made, and the credential state is left as it was:
\* the access token cached afterwards is the one cached before.
C26_FreshTokenLeftAlone ==
    \A c \in Callers :
        (Requested(c) /\ hist[c].nRecover >= 1 /\ hist[c].recoverFresh) =>
            /\ hist[c].nRecover = 1
            /\ hist[c].nData = 2
            /\ Len(hist[c].dp) <= 2
            /\ Len(hist[c].dp) = 2 => Done(c)
            /\ AuthSent(c) = 0
            /\ auth = hist[c].recAuth
            /\ auth.access_token = hist[c].cached[1]

\* C26 witness: a 401 on an unexpired token, the resend answered 200 and
\* returned, the token still the one the first send carried.
C26_Witness ==
    \E c \in Callers :
        /\ Requested(c) /\ Returned(c)
        /\ hist[c].dp = <<401, 200>> /\ hist[c].recoverFresh
        /\ hist[c].nData = 2
        /\ auth.access_token = hist[c].sent[1]

\* C27: when the recovery from a 401 replaces the cached token, the resend
\* carries the new token in its Authorization header.
C27_ResendCarriesNewToken ==
    \A c \in Callers :
        (Requested(c) /\ hist[c].nRecover = 1 /\ Len(hist[c].sent) = 2
            /\ hist[c].cached[2] # hist[c].cached[1])
            => hist[c].sent[2] = hist[c].cached[2]

\* C28: a refresh entered with the access token expired and the refresh
\* token expired as well makes a full authenticate within the same hold of
\* the lock and never sends POST /auth/refresh.
C28_ExpiredRefreshAuthenticates ==
    \A c \in Callers :
        LET e == hist[c].refEntry
        IN  (e.seen /\ e.access_expired /\ e.refresh_expired) =>
                /\ hist[c].nRef = e.nRef
                /\ hist[c].nTok >= e.nTok + 1
                /\ hist[c].nLock = e.nLock
                /\ ExchangeOpen(c) => lockOwner = c

\* C28 witness: a 401 found both tokens expired; one POST /auth/token and no
\* POST /auth/refresh later the resend was answered 200.
C28_Witness ==
    \E c \in Callers :
        /\ Requested(c) /\ Returned(c) /\ hist[c].dp = <<401, 200>>
        /\ hist[c].refEntry.seen
        /\ hist[c].refEntry.access_expired /\ hist[c].refEntry.refresh_expired
        /\ hist[c].nTok = hist[c].refEntry.nTok + 1
        /\ hist[c].nRef = hist[c].refEntry.nRef
        /\ auth.access_token > PriorToken

\* C29: an authenticate or refresh exchange that ends in an error, a failed
\* response or a payload that does not validate, leaves every field of the
\* credential state as it was before the exchange.
C29_FailedExchangeKeepsState ==
    /\ [](\A c \in Callers : ExchangeOpen(c) => auth = hist[c].exAuth)
    /\ [][\A c \in Callers :
            (ExchangeOpen(c) /\ result'[c].kind = "raise") => auth' = hist[c].exAuth]_vars

\* C29 witness: a refresh answered 200 with a payload that does not
\* validate has raised, the tokens cached before still in place.
C29_Witness ==
    \E c \in Callers :
        /\ Raised(c) /\ result[c].exc = ValidationError
        /\ hist[c].nRef >= 1 /\ hist[c].refFirst = 200
        /\ auth = hist[c].exAuth
        /\ auth.access_token = PriorToken

\* ------------------------------------------------- the bounds of one call
\* C31: once an attempt of a request is answered with a 4xx other than 401,
\* no further attempt of that request is sent, also when the 4xx answers one
\* of the retries made after a 5xx.
C31_ClientErrorEndsAttempts ==
    \A c \in Callers :
        \A k \in 1..Len(hist[c].dp) :
            (Requested(c) /\ is_client_error(hist[c].dp[k]) /\ hist[c].dp[k] # 401)
                => hist[c].nData = k

Max(a, b) == IF a >= b THEN a ELSE b

\* C32: one call of the executor sends the request at most
\* max(2, 1 + retries) times; the recovery from a 401 and the retries after a
\* 5xx exclude one another: after a 401 recovery there is one resend and no
\* backoff sleep, whatever the resend is answered with, and once the retries
\* have begun no answer, a 401 included, starts a refresh.
C32_RecoveriesExclusive ==
    \A c \in Callers :
        Requested(c) =>
            /\ hist[c].nData <= Max(2, 1 + hist[c].retries)
            /\ hist[c].nRecover <= 1
            /\ hist[c].nRecover = 1 =>
                  /\ hist[c].dp[1] = 401
                  /\ hist[c].nSleep = 0 /\ hist[c].nData <= 2
                  /\ Len(hist[c].dp) = 2 => Done(c)
            /\ hist[c].nSleep >= 1 =>
                  /\ is_server_error(hist[c].dp[1])
                  /\ hist[c].nRecover = 0
                  /\ AuthSent(c) = 0
                  /\ hist[c].nData <= 1 + hist[c].retries

\* C32 witness: both orders have happened in calls with a retry budget: a
\* 5xx answer to the resend after a 401 ended the call after two sends.
C32_Witness ==
    \E c \in Callers :
        /\ Requested(c) /\ Raised(c) /\ hist[c].retries = MaxRetries
        /\ hist[c].dp = <<401, 500>>
        /\ hist[c].nData = 2 /\ hist[c].nSleep = 0

\* C33: no caller ever waits for the credential lock while it is itself the
\* holder of it, whatever the server answers.
C33_NoSelfWait ==
    \A c \in Callers :
        lockOwner = c => \A i \in 1..Len(waiters) : waiters[i] # c

\* caller c is inside the critical section of _authenticate or
\* _refresh_access_token
InCritical(c) ==
    \E i \in 1..Len(stack[c]) :
        stack[c][i].fn \in {"_authenticate", "_refresh_access_token"}
            /\ stack[c][i].pc = "locked"

\* caller c was handed the lock by the caller that released it and is about
\* to enter its critical section
Handed(c) ==
    /\ Suspended(c) /\ TopFrame(c).pc = "wait_lock"
    /\ \A i \in 1..Len(waiters) : waiters[i] # c

\* C34: the credential lock is held only while its holder is inside an
\* authenticate or refresh critical section; it is released on every way
\* out, a raise included, so a caller that is done, returned or raised, never
\* holds it and the lock is free whenever no caller is inside.
C34_LockReleasedOnExit ==
    /\ lockOwner # 0 => InCritical(lockOwner) \/ Handed(lockOwner)
    /\ \A c \in Callers : Done(c) => lockOwner # c
    /\ (\A c \in Callers : stack[c] = <<>>) => lockOwner = 0 /\ waiters = <<>>

\* C34 witness: one caller's authenticate has failed and raised; the other
\* caller, which never had to wait, now holds the lock with its own exchange.
C34_Witness ==
    \E c, d \in Callers :
        /\ c # d
        /\ Raised(d) /\ hist[d].op = "get_token" /\ hist[d].nLock = 1 /\ hist[d].nTok >= 1
        /\ hist[c].op = "get_token" /\ hist[c].startIssued = hist[d].startIssued
        /\ lockOwner = c /\ ~hist[c].waited /\ hist[c].nLock = 1
        /\ ExchangeOpen(c)

\* ------------------------------------------------- a failed settlement check
\* C35: when a check issued by payment_check ends in an error, after the
\* executor's own recovery, payment_check raises that error at once and
\* issues no further check; whenever it returns, every check it issued was
\* answered with a success, so a failure is never reported as a count.
C35_FailedCheckRaises ==
    \A c \in Callers :
        Polled(c) =>
            /\ is_error(hist[c].last.status) =>
                  /\ Raised(c)
                  /\ result[c].exc = handle_error(hist[c].last)
                  /\ hist[c].nCheck = Len(hist[c].checks) + 1
            /\ Returned(c) =>
                  /\ is_success(hist[c].last.status)
                  /\ hist[c].nCheck = Len(hist[c].checks)
                  /\ result[c].value = hist[c].checks[Len(hist[c].checks)]

\* C35 witness: the second check of a poller with budget left was answered
\* 400; the poller raised QPayError and made no third check.
C35_Witness ==
    \E c \in Callers :
        /\ Polled(c) /\ Raised(c) /\ hist[c].attempts = MaxAttempts
        /\ hist[c].checks = <<0>> /\ hist[c].nCheck = 2
        /\ hist[c].last.status = 400
        /\ result[c].exc.type = "QPayError" /\ result[c].exc.status_code = 400

C37_SyncAsyncAgree ==
    (pair.op # "none" /\ pair.async.done /\ pair.sync.done) =>
        /\ pair.sync.reqs = pair.async.reqs
        /\ pair.sync.result = pair.async.result
        /\ pair.sync.auth = pair.async.auth

====
